---- MODULE Spec2Model ----
(***************************************************************************)
(* Planning-poker orchestration engine: the Session (command router, start *)
(* loop, plan / estimate / vote / skip / pass handlers) and the Round      *)
(* (fan-out of one estimate prompt per participant, join, cancellation).   *)
(*                                                                         *)
(* The program is single threaded and cooperative: a handler runs without  *)
(* interruption up to its next await.  Every action below is one such      *)
(* uninterrupted block.  Consecutive awaits on chat deliveries between     *)
(* which the handler touches no session or round state are one suspension. *)
(* Chat deliveries (room.sendMessage, person.sendMessage, updateTitle) are *)
(* taken to succeed; the work-item source (api.request) may fail.          *)
(***************************************************************************)
EXTENDS Integers, Sequences, FiniteSets, TLC

(* ------------------------------ bounds --------------------------------- *)

\* Largest number of work items a fetched tasklist holds.
MaxTasks == 2
\* Largest number of Round objects ever constructed (over all plan commands).
MaxRounds == 2
\* Largest number of start() calls accepted (each runs its own loop).
MaxLoops == 2
\* Largest number of estimate commands between finalize and write-back.
MaxEstimating == 1
\* Largest number of plan() calls awaiting the fetch at once.
MaxFetching == 2
\* Largest number of interventions in one run: accepted skip, pass and
\* estimate commands, people joining or leaving, start commands after the first.
MaxInterventions == 2

(* --------------------------- values of the program --------------------- *)

\* JavaScript's undefined / null for a Round reference or a number.
NoRound == 0
NoValue == -100
\* parseFloat's NaN.
NaN == -200

Moderator == "M"
Persons == {"M", "A", "B"}

\* Texts that follow "@bot vote".
VoteInputs == {"", "abc", "3", "0"}
\* Only B votes "0".
VoteInputsOf(person) == IF person = "B" THEN VoteInputs ELSE VoteInputs \ {"0"}
\* Texts that follow "@bot estimate".
EstimateInputs == {"", "abc", "6", "-1"}
\* Numbers a person types into a direct prompt (the prompt validates "float"):
\* B types 5, everybody else 3.
ReplyValues == {3, 5}
ReplyValuesOf(person) == IF person = "B" THEN {5} ELSE {3}
\* Numbers the moderator types into the confirmation prompt.
FinalValues == {4}
\* Texts that follow "@bot plan".
PlanInputs == {"", "tasklist 12", "https://x.teamwork.com/index.cfm#tasklists/12"}

VARIABLES
    people,          \* room.people without the bot
    rounds,          \* Session.rounds: the pending queue (Round ids)
    completedRounds, \* Session.completedRounds
    skippedRounds,   \* Session.skippedRounds
    currentRound,    \* Session.currentRound (NoRound: undefined / null)
    planning,        \* Session.planning
    completed,       \* Session.completed
    round,           \* the Round objects constructed so far, by id
    loops,           \* the start() calls, in order of acceptance
    fetching,        \* plan() calls awaiting the work-item fetch
    estimating,      \* estimate commands awaiting the write-back
    emitted,         \* number of "complete" events emitted
    interventions,   \* number of interventions so far
    out              \* the reply being delivered: its command and error (if any)

\* The Session's own fields.
session == <<rounds, completedRounds, skippedRounds, currentRound, planning, completed>>

\* The handlers suspended at an await.
suspended == <<loops, fetching, estimating>>

\* The counters that bound the model.
budget == <<interventions>>

vars == <<people, session, round, suspended, emitted, budget, out>>

(* ------------------------------ helpers -------------------------------- *)

Range(s) == {s[i] : i \in 1..Len(s)}

Count(s, x) == Cardinality({i \in 1..Len(s) : s[i] = x})

RoundIds == 1..MaxRounds
\* The start() calls and the estimate commands a run can hold.
LoopIds == 1..MaxLoops
EstimatingIds == 1..MaxEstimating

\* The order in which the room lists its people.
RoomOrder == <<"M", "A", "B">>

\* Session.participants: without(this.room.people, this.admin), as an array.
\* The bot is never in `people`, so it is all of them, in room order.
participants == SelectSeq(RoomOrder, LAMBDA p : p \in people)

Outcome(cmd, err) == [cmd |-> cmd, err |-> err]

\* No reply is on its way.
Silent == Outcome("none", "none")

(* ------------------------------- Prompt -------------------------------- *)

\* new Prompt(participant, ...) followed by prompt.run(): a pending request.
NewPrompt(person) == [person |-> person, st |-> "pending", value |-> NoValue]

\* prompt.isPending()
IsPending(p) == p.st = "pending"

\* prompt.finalize(value), or the person's own reply: the request resolves.
Finalize(p, v) == [p EXCEPT !.st = "resolved", !.value = v]

\* A cancel() that leaves the request as it is.
CancelNothing(p) == p

\* prompt.cancel(): a pending request is cancelled, a settled one is left.
Cancel(p) == IF IsPending(p) THEN [p EXCEPT !.st = "cancelled"] ELSE p

(* -------------------------------- Round -------------------------------- *)

\* new Round(session, task)
NewRound(task) ==
    [task |-> task, prompts |-> <<>>, reject |-> "undefined", value |-> NoValue]

\* Round.getEstimatingUsers()
getEstimatingUsers(r) ==
    LET pend == SelectSeq(round[r].prompts, IsPending)
    IN  [i \in 1..Len(pend) |-> pend[i].person]

\* Round.finalize(value)
RoundFinalize(rd, v) == [rd EXCEPT !.value = v]

\* Round.getAllEstimates(): one prompt per participant, reject kept.
GetAllEstimates(rd) ==
    [rd EXCEPT !.prompts = [i \in 1..Len(participants) |-> NewPrompt(participants[i])],
               !.reject = "function"]

\* The prompts of a round after prompts.forEach(prompt => prompt.cancel()).
CancelledPrompts(rd) == [i \in 1..Len(rd.prompts) |-> Cancel(rd.prompts[i])]

\* Round.cancelAllEstimates() past its first line: reject cleared, every
\* prompt cancelled, prompts emptied.
CancelAllEstimates(rd) == [rd EXCEPT !.reject = "null", !.prompts = <<>>]

\* meanBy(estimates): the sum and the count (NaN when there is none).
Sum(s) == LET F[i \in 0..Len(s)] == IF i = 0 THEN 0 ELSE F[i - 1] + s[i] IN F[Len(s)]

MeanBy(vals) ==
    IF Len(vals) = 0 THEN [sum |-> NaN, n |-> 0] ELSE [sum |-> Sum(vals), n |-> Len(vals)]

NoResult == [estimates |-> <<>>, average |-> [sum |-> NoValue, n |-> 0]]

\* The value Round.execute() returns.
ExecuteResult(rd) ==
    [estimates |-> rd.prompts,
     average |-> MeanBy([i \in 1..Len(rd.prompts) |-> rd.prompts[i].value])]

(* ------------------------------- parsing ------------------------------- *)

\* parseFloat on the texts of VoteInputs and EstimateInputs.
ParseFloat(input) ==
    CASE input = "3" -> 3
      [] input = "6" -> 6
      [] input = "0" -> 0
      [] input = "-1" -> -1
      [] OTHER -> NaN

\* tasklist.match(/https?:\/\/(...)\.teamwork.com\/index\.cfm#tasklists\/(\d+)/)
IsTasklistUrl(arg) == arg = "https://x.teamwork.com/index.cfm#tasklists/12"

(* -------------------------------- Init --------------------------------- *)

Init ==
    /\ people = {"M", "A"}
    /\ rounds = <<>>
    /\ completedRounds = <<>>
    /\ skippedRounds = <<>>
    /\ currentRound = NoRound
    /\ planning = FALSE
    /\ completed = FALSE
    /\ round = <<>>
    /\ loops = <<>>
    /\ fetching = 0
    /\ estimating = <<>>
    /\ emitted = 0
    /\ interventions = 0
    /\ out = Silent

(* --------------------- Session: shared pieces -------------------------- *)

\* Whether r names a Round object.
IsRound(r) == r \in 1..Len(round)

\* Whether currentRound.cancelAllEstimates() gets past its first line:
\* this.reject(...) throws a TypeError unless getAllEstimates has stored the
\* reject function and no cancelAllEstimates has cleared it since.
CanCancel(r) == IsRound(r) /\ round[r].reject = "function"

\* The Round objects after r.cancelAllEstimates().
RoundsAfterCancel(r) == [round EXCEPT ![r] = CancelAllEstimates(@)]

\* The start() calls after r.cancelAllEstimates(): the execute() that awaits
\* r's estimates rejects with the CancellationError and its loop is in the
\* catch branch, awaiting broadcastDirect; a settled promise ignores reject.
LoopsAfterCancel(r) ==
    [l \in 1..Len(loops) |->
        IF loops[l].pc = "voting" /\ loops[l].rnd = r
        THEN [loops[l] EXCEPT !.pc = "cancelled"]
        ELSE loops[l]]

\* A start() call at pc, inside or after execute() of round r.
\* asked records whom the execute() in progress sent its requests to,
\* confirmer whom the loop is asking for the final estimate.
Loop(pc, r) ==
    [pc |-> pc, rnd |-> r, asked |-> <<>>, confirmer |-> "nobody", result |-> NoResult]

\* while(this.currentRound = this.rounds.shift()) and, when the queue is
\* empty, the statements up to the first await after the loop.
Shift(l) ==
    IF rounds = <<>>
    THEN /\ currentRound' = NoRound
         /\ planning' = FALSE
         /\ completed' = TRUE
         /\ rounds' = rounds
         /\ loops' = [loops EXCEPT ![l] = Loop("closing", NoRound)]
    ELSE /\ currentRound' = Head(rounds)
         /\ rounds' = Tail(rounds)
         /\ loops' = [loops EXCEPT ![l] = Loop("announce", Head(rounds))]
         /\ UNCHANGED <<planning, completed>>

\* No reply is waiting to be delivered: the next event can be handled.
Idle == out = Silent

\* A handler that throws: handleMention's catch broadcasts the error.
Reject(cmd, err) ==
    /\ out' = Outcome(cmd, err)
    /\ UNCHANGED <<people, session, round, suspended, emitted, budget>>

(* --------------------- room membership events -------------------------- *)

\* A handler that also sends the newcomer a request of the current round.
handleAddedPersonAsks(p) ==
    /\ Idle
    /\ p \notin people
    /\ interventions < MaxInterventions
    /\ interventions' = interventions + 1
    /\ people' = people \cup {p}
    /\ round' = IF CanCancel(currentRound)
                THEN [round EXCEPT ![currentRound].prompts = Append(@, NewPrompt(p))]
                ELSE round
    /\ UNCHANGED <<session, suspended, emitted, out>>

handleAddedPerson(p) ==
    /\ Idle
    /\ p \notin people
    /\ interventions < MaxInterventions
    /\ interventions' = interventions + 1
    /\ people' = people \cup {p}
    /\ UNCHANGED <<session, round, suspended, emitted, out>>

handleRemovedPerson(p) ==
    /\ Idle
    /\ p \in people
    /\ interventions < MaxInterventions
    /\ interventions' = interventions + 1
    /\ people' = people \ {p}
    /\ UNCHANGED <<session, round, suspended, emitted, out>>

(* ------------------------------ plan ----------------------------------- *)

\* A guard that forgets the pending queue.
PlanRejectsPlanningOnly == planning

\* Session.plan's guard.
PlanRejects == Len(rounds) # 0 \/ planning

\* What "@bot plan <arg>" throws before the fetch ("none": it fetches).
PlanError(arg) ==
    IF arg = "" THEN "NoTasklist"
    ELSE IF ~IsTasklistUrl(arg) THEN "NotTasklistUrl"
    ELSE IF PlanRejects THEN "AlreadyPlanning"
    ELSE "none"

\* "@bot plan <arg>": handleMention's case "plan" and plan() up to the fetch.
PlanCmd(arg) ==
    /\ Idle
    /\ IF PlanError(arg) # "none" THEN Reject("plan", PlanError(arg))
       ELSE /\ fetching < MaxFetching
            /\ fetching' = fetching + 1
            /\ UNCHANGED <<people, session, round, loops, estimating, emitted, budget, out>>

\* The Round objects plan() constructs for n fetched tasks, in source order.
PlannedRounds(n) == [i \in 1..n |-> NewRound(i)]

\* A queue that holds the new rounds last item first.
PlannedQueueReversed(n) == [i \in 1..n |-> Len(round) + n + 1 - i]

\* The queue plan() assigns: the new rounds, in source order.
PlannedQueue(n) == [i \in 1..n |-> Len(round) + i]

\* plan() resumes with the fetched tasks (n of them).
PlanFetched(n) ==
    /\ Idle
    /\ fetching > 0
    /\ fetching' = fetching - 1
    /\ Len(round) + n <= MaxRounds
    /\ IF n = 0
       THEN /\ out' = Outcome("plan", "NoTasks")
            /\ UNCHANGED <<round, rounds>>
       ELSE /\ round' = round \o PlannedRounds(n)
            /\ rounds' = PlannedQueue(n)
            /\ out' = Outcome("plan", "none")
    /\ UNCHANGED <<people, completedRounds, skippedRounds, currentRound, planning,
                   completed, loops, estimating, emitted, budget>>

\* A plan() that marks the session as planning and leaves the mark behind
\* when the fetch fails.
PlanFetchFailedStuck ==
    /\ Idle
    /\ fetching > 0
    /\ fetching' = fetching - 1
    /\ planning' = TRUE
    /\ out' = Outcome("plan", "ApiError")
    /\ UNCHANGED <<people, rounds, completedRounds, skippedRounds, currentRound,
                   completed, round, loops, estimating, emitted, budget>>

\* plan() resumes with a failed fetch.
PlanFetchFailed ==
    /\ Idle
    /\ fetching > 0
    /\ fetching' = fetching - 1
    /\ out' = Outcome("plan", "ApiError")
    /\ UNCHANGED <<people, session, round, loops, estimating, emitted, budget>>

(* ------------------------------ start ---------------------------------- *)

\* Session.start's guard.
StartRejects == Len(rounds) = 0

\* "@bot start": start() up to the first await inside execute().
StartCmd ==
    /\ Idle
    /\ IF StartRejects THEN Reject("start", "NoTasks")
       ELSE /\ Len(loops) < MaxLoops
            /\ Len(loops) > 0 => interventions < MaxInterventions
            /\ interventions' = interventions + (IF Len(loops) > 0 THEN 1 ELSE 0)
            /\ planning' = TRUE
            /\ currentRound' = Head(rounds)
            /\ rounds' = Tail(rounds)
            /\ loops' = Append(loops, Loop("announce", Head(rounds)))
            /\ out' = Outcome("start", "none")
            /\ UNCHANGED <<people, completedRounds, skippedRounds, completed, round,
                           fetching, estimating, emitted>>

\* execute() resumes after broadcasting the task: getAllEstimates().
Announced(l) ==
    /\ Idle
    /\ l \in DOMAIN loops
    /\ loops[l].pc = "announce"
    /\ round' = [round EXCEPT ![loops[l].rnd] = GetAllEstimates(@)]
    /\ loops' = [loops EXCEPT ![l].pc = "voting", ![l].asked = participants]
    /\ UNCHANGED <<people, session, fetching, estimating, emitted, budget, out>>

\* A join that a single resolved prompt releases (a race to the first).
AnyResolved(rd) == \E i \in 1..Len(rd.prompts) : rd.prompts[i].st = "resolved"

\* The join of Promise.all: every prompt of the round has resolved.
AllResolved(rd) == \A i \in 1..Len(rd.prompts) : rd.prompts[i].st = "resolved"

\* execute() resumes with the estimates and returns its result.
ExecuteResolved(l) ==
    /\ Idle
    /\ l \in DOMAIN loops
    /\ loops[l].pc = "voting"
    /\ AllResolved(round[loops[l].rnd])
    /\ loops' = [loops EXCEPT ![l].pc = "report",
                              ![l].result = ExecuteResult(round[loops[l].rnd])]
    /\ UNCHANGED <<people, session, round, fetching, estimating, emitted, budget, out>>

\* A start() call whose rejection nobody catches: the loop ends, no reply.
LoopFailsUnhandled(l, err) ==
    /\ loops' = [loops EXCEPT ![l] = Loop("failed", NoRound)]
    /\ out' = out

\* A start() call ends with an error other than the cancellation.
LoopFails(l, err) ==
    /\ loops' = [loops EXCEPT ![l] = Loop("failed", NoRound)]
    /\ out' = Outcome("start", err)

\* After the three result broadcasts: the moderator's prompt is built from
\* this.currentRound.task.id.
Reported(l) ==
    /\ Idle
    /\ l \in DOMAIN loops
    /\ loops[l].pc = "report"
    /\ IF currentRound = NoRound
       THEN LoopFails(l, "TypeError")
       ELSE /\ loops' = [loops EXCEPT ![l].pc = "confirm", ![l].confirmer = Moderator]
            /\ out' = out
    /\ UNCHANGED <<people, session, round, fetching, estimating, emitted, budget>>

\* What estimate(value) throws before it finalizes ("none": it finalizes).
FinalizeError ==
    IF ~planning THEN "NoCurrentTask"
    ELSE IF currentRound = NoRound THEN "TypeError"
    ELSE "none"

\* The moderator answers the prompt with `final`; after the broadcast,
\* estimate(final) runs up to its write-back.
Confirmed(l, final) ==
    /\ Idle
    /\ l \in DOMAIN loops
    /\ loops[l].pc = "confirm"
    /\ IF FinalizeError # "none"
       THEN LoopFails(l, FinalizeError) /\ round' = round
       ELSE /\ round' = [round EXCEPT ![currentRound] = RoundFinalize(@, final)]
            /\ loops' = [loops EXCEPT ![l] = Loop("writeback", loops[l].rnd)]
            /\ out' = out
    /\ UNCHANGED <<people, session, fetching, estimating, emitted, budget>>

\* estimate(final) in the loop: the write-back fails.
WriteFailed(l) ==
    /\ Idle
    /\ l \in DOMAIN loops
    /\ loops[l].pc = "writeback"
    /\ LoopFails(l, "ApiError")
    /\ UNCHANGED <<people, session, round, fetching, estimating, emitted, budget>>

\* estimate(final) in the loop: the write-back succeeded; the announcement
\* reads this.currentRound.task.title.
Written(l) ==
    /\ Idle
    /\ l \in DOMAIN loops
    /\ loops[l].pc = "writeback"
    /\ IF currentRound = NoRound
       THEN LoopFails(l, "TypeError")
       ELSE /\ loops' = [loops EXCEPT ![l].pc = "updated"]
            /\ out' = out
    /\ UNCHANGED <<people, session, round, fetching, estimating, emitted, budget>>

\* Session.nextRound() up to its broadcast.
NextRoundPush == completedRounds' = Append(completedRounds, currentRound)

\* The loop calls nextRound().
Pushed(l) ==
    /\ Idle
    /\ l \in DOMAIN loops
    /\ loops[l].pc = "updated"
    /\ NextRoundPush
    /\ loops' = [loops EXCEPT ![l].pc = "advance"]
    /\ UNCHANGED <<people, rounds, skippedRounds, currentRound, planning, completed,
                   round, fetching, estimating, emitted, budget, out>>

\* nextRound() returned: the loop takes the next round.
Advanced(l) ==
    /\ Idle
    /\ l \in DOMAIN loops
    /\ loops[l].pc = "advance"
    /\ Shift(l)
    /\ UNCHANGED <<people, completedRounds, skippedRounds, round, fetching, estimating,
                   emitted, budget, out>>

\* The catch branch for a CancellationError: after broadcastDirect, continue.
CancelNoticed(l) ==
    /\ Idle
    /\ l \in DOMAIN loops
    /\ loops[l].pc = "cancelled"
    /\ Shift(l)
    /\ UNCHANGED <<people, completedRounds, skippedRounds, round, fetching, estimating,
                   emitted, budget, out>>

\* After the completion broadcasts: the listing maps over completedRounds
\* (a null entry has no formatTaskLink), then emit("complete").
Closed(l) ==
    /\ Idle
    /\ l \in DOMAIN loops
    /\ loops[l].pc = "closing"
    /\ IF NoRound \in Range(completedRounds)
       THEN LoopFails(l, "TypeError") /\ emitted' = emitted
       ELSE /\ loops' = [loops EXCEPT ![l].pc = "done"]
            /\ emitted' = emitted + 1
            /\ out' = out
    /\ UNCHANGED <<people, session, round, fetching, estimating, budget>>

(* ------------------------------- vote ---------------------------------- *)

\* A find that takes the first prompt, whoever it was sent to.
FindFirstPrompt(prompts, person) == IF prompts = <<>> THEN 0 ELSE 1

\* Array.prototype.find over the prompts: the index of the first prompt of
\* `person`, 0 when there is none (find returns undefined).
FindPrompt(prompts, person) ==
    IF \E i \in 1..Len(prompts) : prompts[i].person = person
    THEN CHOOSE i \in 1..Len(prompts) :
            /\ prompts[i].person = person
            /\ \A j \in 1..(i - 1) : prompts[j].person # person
    ELSE 0

\* What Session.vote(person, estimate) throws ("none": it resolves the prompt).
VoteError(person) ==
    IF ~planning THEN "NoTaskToVote"
    ELSE IF ~IsRound(currentRound) THEN "TypeError"
    ELSE LET i == FindPrompt(round[currentRound].prompts, person)
         IN  IF i = 0 THEN "TypeError"
             ELSE IF IsPending(round[currentRound].prompts[i]) THEN "none"
             ELSE "AlreadyVoted"

\* What "@bot vote <input>" by `person` throws.
VoteCmdError(person, input) ==
    IF input = "" THEN "NoEstimate"
    ELSE IF ParseFloat(input) = NaN THEN "InvalidEstimate"
    ELSE VoteError(person)

\* "@bot vote <input>" by `person`.
VoteCmd(person, input) ==
    /\ Idle
    /\ person \in people
    /\ input \in VoteInputsOf(person)
    /\ IF VoteCmdError(person, input) # "none"
       THEN Reject("vote", VoteCmdError(person, input))
       ELSE LET i == FindPrompt(round[currentRound].prompts, person)
            IN  /\ round' = [round EXCEPT ![currentRound].prompts[i] = Finalize(@, ParseFloat(input))]
                /\ out' = Outcome("vote", "none")
                /\ UNCHANGED <<people, session, suspended, emitted, budget>>

\* A person answers the prompt sent to them directly.
Reply(r, i, v) ==
    /\ Idle
    /\ IsRound(r)
    /\ i \in 1..Len(round[r].prompts)
    /\ IsPending(round[r].prompts[i])
    /\ v \in ReplyValuesOf(round[r].prompts[i].person)
    /\ round' = [round EXCEPT ![r].prompts[i] = Finalize(@, v)]
    /\ UNCHANGED <<people, session, suspended, emitted, budget, out>>

(* ------------------------------ estimate ------------------------------- *)

\* The estimate command without its check of the author.
EstimateErrorAnyAuthor(author, input) ==
    IF currentRound = NoRound THEN "NothingToEstimate"
    ELSE IF input = "" THEN "NoEstimate"
    ELSE IF ParseFloat(input) = NaN THEN "InvalidEstimate"
    ELSE FinalizeError

\* What "@bot estimate <input>" throws before estimate() finalizes.
EstimateError(author, input) ==
    IF author # Moderator THEN "NotModerator"
    ELSE IF currentRound = NoRound THEN "NothingToEstimate"
    ELSE IF input = "" THEN "NoEstimate"
    ELSE IF ParseFloat(input) = NaN THEN "InvalidEstimate"
    ELSE FinalizeError

\* "@bot estimate <input>": the guards, then estimate() up to its write-back.
\* rnd, v and pending record the round the command finalized, the value, and
\* whether a request of that round was pending then.
EstimateCmd(author, input) ==
    /\ Idle
    /\ author \in people
    /\ IF EstimateError(author, input) # "none"
       THEN Reject("estimate", EstimateError(author, input))
       ELSE /\ Len(estimating) < MaxEstimating
            /\ interventions < MaxInterventions
            /\ interventions' = interventions + 1
            /\ round' = [round EXCEPT ![currentRound] = RoundFinalize(@, ParseFloat(input))]
            /\ estimating' = Append(estimating,
                    [pc |-> "writeback", rnd |-> currentRound, v |-> ParseFloat(input),
                     pending |-> Len(getEstimatingUsers(currentRound)) > 0])
            /\ UNCHANGED <<people, session, loops, fetching, emitted, out>>

RemoveAt(s, k) == SubSeq(s, 1, k - 1) \o SubSeq(s, k + 1, Len(s))

\* The write-back of an estimate command fails.
EstimateWriteFailed(k) ==
    /\ Idle
    /\ k \in DOMAIN estimating
    /\ estimating[k].pc = "writeback"
    /\ estimating' = RemoveAt(estimating, k)
    /\ out' = Outcome("estimate", "ApiError")
    /\ UNCHANGED <<people, session, round, loops, fetching, emitted, budget>>

\* The write-back succeeded; the announcement reads currentRound.task.title.
EstimateWritten(k) ==
    /\ Idle
    /\ k \in DOMAIN estimating
    /\ estimating[k].pc = "writeback"
    /\ IF currentRound = NoRound
       THEN /\ estimating' = RemoveAt(estimating, k)
            /\ out' = Outcome("estimate", "TypeError")
       ELSE /\ estimating' = [estimating EXCEPT ![k].pc = "updated"]
            /\ out' = out
    /\ UNCHANGED <<people, session, round, loops, fetching, emitted, budget>>

\* estimate() resolved: the command cancels the current round's estimates
\* and calls nextRound().
EstimateThen(k) ==
    /\ Idle
    /\ k \in DOMAIN estimating
    /\ estimating[k].pc = "updated"
    /\ estimating' = RemoveAt(estimating, k)
    /\ IF ~CanCancel(currentRound)
       THEN /\ out' = Outcome("estimate", "TypeError")
            /\ UNCHANGED <<round, loops, completedRounds>>
       ELSE /\ round' = RoundsAfterCancel(currentRound)
            /\ loops' = LoopsAfterCancel(currentRound)
            /\ NextRoundPush
            /\ out' = Outcome("estimate", "none")
    /\ UNCHANGED <<people, rounds, skippedRounds, currentRound, planning, completed,
                   fetching, emitted, budget>>

(* ----------------------------- skip / pass ----------------------------- *)

\* skip() and pass() without their guard on this.planning.
PreemptErrorUnguarded == IF ~CanCancel(currentRound) THEN "TypeError" ELSE "none"

\* What skip() and pass() throw.
PreemptError ==
    IF ~planning THEN "NoTask"
    ELSE IF ~CanCancel(currentRound) THEN "TypeError"
    ELSE "none"

\* "@bot skip"
SkipCmd ==
    /\ Idle
    /\ IF PreemptError # "none" THEN Reject("skip", PreemptError)
       ELSE /\ interventions < MaxInterventions
            /\ interventions' = interventions + 1
            /\ round' = RoundsAfterCancel(currentRound)
            /\ loops' = LoopsAfterCancel(currentRound)
            /\ skippedRounds' = Append(skippedRounds, currentRound)
            /\ out' = Outcome("skip", "none")
            /\ UNCHANGED <<people, rounds, completedRounds, currentRound, planning,
                           completed, fetching, estimating, emitted>>

\* "@bot pass"
PassCmd ==
    /\ Idle
    /\ IF PreemptError # "none" THEN Reject("pass", PreemptError)
       ELSE /\ interventions < MaxInterventions
            /\ interventions' = interventions + 1
            /\ round' = RoundsAfterCancel(currentRound)
            /\ loops' = LoopsAfterCancel(currentRound)
            /\ rounds' = Append(rounds, currentRound)
            /\ out' = Outcome("pass", "none")
            /\ UNCHANGED <<people, completedRounds, skippedRounds, currentRound, planning,
                           completed, fetching, estimating, emitted>>

(* ------------------------ the other mentions --------------------------- *)

\* "@bot help"
HelpCmd == Idle /\ Reject("help", "none")

\* The two counts of the status report: "<completed> of <total> tasks estimated".
StatusCompleted == Len(completedRounds)
StatusTotal == Len(rounds)

\* "@bot status": with planning set it reads currentRound.getEstimatingUsers().
StatusCmd ==
    /\ Idle
    /\ IF planning /\ currentRound = NoRound THEN Reject("status", "TypeError")
       ELSE Reject("status", "none")

\* "@bot add": the default branch calls this.add, which Session does not have.
AddCmd == Idle /\ Reject("add", "TypeError")

\* A mention that matches no command.
UnknownCmd == Idle /\ Reject("unknown", "DontUnderstand")

(* ------------------------------- Next ---------------------------------- *)

\* handleMention: one mention in the room.
Command ==
    \/ \E arg \in PlanInputs : PlanCmd(arg)
    \/ StartCmd
    \/ \E p \in Persons, input \in VoteInputs : VoteCmd(p, input)
    \/ \E p \in Persons, input \in EstimateInputs : EstimateCmd(p, input)
    \/ SkipCmd
    \/ PassCmd
    \/ HelpCmd
    \/ StatusCmd
    \/ AddCmd
    \/ UnknownCmd

\* A suspended handler resumes.
Resume ==
    \/ \E n \in 0..MaxTasks : PlanFetched(n)
    \/ PlanFetchFailed
    \/ \E l \in LoopIds : Announced(l)
    \/ \E l \in LoopIds : ExecuteResolved(l)
    \/ \E l \in LoopIds : Reported(l)
    \/ \E l \in LoopIds, final \in FinalValues : Confirmed(l, final)
    \/ \E l \in LoopIds : WriteFailed(l)
    \/ \E l \in LoopIds : Written(l)
    \/ \E l \in LoopIds : Pushed(l)
    \/ \E l \in LoopIds : Advanced(l)
    \/ \E l \in LoopIds : CancelNoticed(l)
    \/ \E l \in LoopIds : Closed(l)
    \/ \E k \in EstimatingIds : EstimateWriteFailed(k)
    \/ \E k \in EstimatingIds : EstimateWritten(k)
    \/ \E k \in EstimatingIds : EstimateThen(k)

\* The room and the people act.
Environment ==
    \/ \E p \in Persons : handleAddedPerson(p)
    \/ \E p \in Persons : handleRemovedPerson(p)
    \/ \E r \in RoundIds, i \in 1..Cardinality(Persons), v \in ReplyValues : Reply(r, i, v)

\* The reply of a handler (broadcastError, or the handler's own broadcast)
\* has been delivered.  A reply is sent before any other event is handled
\* and changes no state, so it is delivered first.
Delivered ==
    /\ out # Silent
    /\ out' = Silent
    /\ UNCHANGED <<people, session, round, suspended, emitted, budget>>

Next ==
    \/ Command
    \/ Resume
    \/ Environment
    \/ Delivered

Spec == Init /\ [][Next]_vars

(* ======================== the claims, C1 - C10 ========================= *)

\* Whether the start() call l is inside an execute() with a request outstanding.
Running(l) ==
    /\ loops[l].pc = "voting"
    /\ \E i \in 1..Len(round[loops[l].rnd].prompts) : IsPending(round[loops[l].rnd].prompts[i])

\* C1: a Session never has two Rounds whose execute() is in progress with
\* outstanding estimate requests at the same time.
C1_OneRoundRunning ==
    \A l1, l2 \in 1..Len(loops) : Running(l1) /\ Running(l2) => l1 = l2

\* The number of places (pending queue, currentRound slot, completed queue,
\* skipped queue) that hold round r, counted with multiplicity.
Places(r) ==
    Count(rounds, r) + Count(completedRounds, r) + Count(skippedRounds, r)
        + (IF currentRound = r THEN 1 ELSE 0)

\* C2: in every reachable state each Round created by plan is in exactly one
\* of the pending queue, the currentRound slot, the completed queue and the
\* skipped queue.
C2_ExactlyOnePlace == \A r \in 1..Len(round) : Places(r) = 1

\* The persons of a sequence of prompts.
PersonsOf(prompts) == [i \in 1..Len(prompts) |-> prompts[i].person]

\* C3: execute() resolves only after every request it issued has resolved,
\* its result then has exactly one estimate per participant present when the
\* requests were issued, and it rejects only because the round's estimates
\* were cancelled.
C3_ExecuteJoinsAll ==
    [][\A l \in 1..Len(loops) :
        loops[l].pc = "voting" /\ loops'[l].pc # "voting" =>
            \/ /\ loops'[l].pc = "report"
               /\ \A i \in 1..Len(round[loops[l].rnd].prompts) :
                      round[loops[l].rnd].prompts[i].st = "resolved"
               /\ PersonsOf(loops'[l].result.estimates) = loops[l].asked
            \/ /\ loops'[l].pc = "cancelled"
               /\ round[loops[l].rnd].reject = "function"
               /\ round'[loops[l].rnd].reject = "null"
               /\ round'[loops[l].rnd].prompts = <<>>]_vars

\* C3 witness: an execute() has resolved with the estimates of two participants.
C3_Witness ==
    \E l \in 1..Len(loops) :
        loops[l].pc = "report" /\ Len(loops[l].result.estimates) = 2

\* C4: when the moderator issues `estimate v` on a running round with a
\* request still pending and the command completes, no request of that round
\* is pending, the round's final value is v and the round is recorded as
\* completed once.
C4_ManualOverride ==
    [][\A k \in 1..Len(estimating) :
        (/\ estimating[k].pending
         /\ estimating[k].pc = "updated"
         /\ estimating' = RemoveAt(estimating, k)
         /\ out' = Outcome("estimate", "none"))
        => LET r == estimating[k].rnd
           IN  /\ \A i \in 1..Len(round'[r].prompts) : ~IsPending(round'[r].prompts[i])
               /\ round'[r].value = estimating[k].v
               /\ Count(completedRounds', r) = 1]_vars

\* Whether some start() call is inside execute() of round r.
Executing(r) ==
    \E l \in 1..Len(loops) : loops[l].rnd = r /\ loops[l].pc \in {"announce", "voting"}

\* C5: a round on which skip was accepted is in the skipped queue, is never
\* executed again and never appears in completedRounds.
C5_SkippedStaysSkipped ==
    \A r \in Range(skippedRounds) : r \notin Range(completedRounds) /\ ~Executing(r)

\* C6: a round on which pass was accepted goes to the tail of the pending
\* queue with its requests cancelled, and leaves the queue only to be executed
\* again (as the current round of a start() call that begins its execute()).
C6_PassedRoundRunsAgain ==
    [][/\ (Idle /\ out' = Outcome("pass", "none")) =>
            /\ rounds' = Append(rounds, currentRound)
            /\ round'[currentRound].prompts = <<>>
       /\ \A r \in 1..Len(round) :
            (r \in Range(rounds) /\ round[r].reject = "null" /\ r \notin Range(rounds')) =>
                /\ currentRound' = r
                /\ \E l \in 1..Len(loops') : loops'[l] = Loop("announce", r)]_vars

\* C7: once a round has a final value, no later finalize overwrites it.
C7_FinalValueSetOnce ==
    [][\A r \in 1..Len(round) :
        round[r].value # NoValue => round'[r].value = round[r].value]_vars

\* Whether person p has a pending request in the current round.
HasPendingRequest(p) ==
    /\ IsRound(currentRound)
    /\ \E i \in 1..Len(round[currentRound].prompts) :
        /\ round[currentRound].prompts[i].person = p
        /\ IsPending(round[currentRound].prompts[i])

\* C8: a vote of a person with no pending request in the active round is
\* rejected with the "already voted" error and changes no request.
C8_VoteWithoutRequest ==
    [][\A p \in Persons :
        (planning /\ IsRound(currentRound) /\ ~HasPendingRequest(p) /\ VoteCmd(p, "3"))
        => out' = Outcome("vote", "AlreadyVoted") /\ round' = round]_vars

\* C9 as amended: with a non-empty pending queue a plan command is rejected
\* and leaves the queue unchanged; the error is the state error when the
\* argument is a tasklist reference, and the argument error otherwise.
C9_PlanRejectedWhileQueued ==
    [][\A arg \in PlanInputs :
        (Len(rounds) > 0 /\ PlanCmd(arg))
        => /\ rounds' = rounds
           /\ fetching' = fetching
           /\ out'.cmd = "plan"
           /\ out'.err \in {"NoTasklist", "NotTasklistUrl", "AlreadyPlanning"}
           /\ (IsTasklistUrl(arg) <=> out'.err = "AlreadyPlanning")]_vars

\* C9 witness: a plan command with a tasklist reference was rejected with the
\* state error while rounds were pending.
C9_Witness == Len(rounds) > 0 /\ out = Outcome("plan", "AlreadyPlanning")

\* C9 as stated: with a non-empty pending queue a plan command is rejected
\* with the state error whatever its argument, and leaves the queue unchanged.
C9_AlwaysStateError ==
    [][\A arg \in PlanInputs :
        (Len(rounds) > 0 /\ PlanCmd(arg))
        => rounds' = rounds /\ out' = Outcome("plan", "AlreadyPlanning")]_vars

\* C10: at most one plan command populates the queue: once a plan has
\* constructed its rounds, no plan constructs rounds or assigns the queue again.
C10_SinglePlan ==
    [][Len(round) > 0 => Len(round') = Len(round)]_vars

(* ======================== the claims, C11 - C20 ======================== *)

\* The owner's list of active sessions: the session is pushed at creation
\* and pulled by the handler of its first "complete" event.
sessions == IF emitted = 0 THEN {"session"} ELSE {}

\* C11: the "complete" event is emitted only when the pending queue is empty,
\* no round is current and planning is false, it is emitted at most once per
\* session, and the owner then has removed the session from its list.
C11_CompleteOnce ==
    [][emitted' # emitted =>
        /\ emitted = 0
        /\ rounds = <<>>
        /\ currentRound = NoRound
        /\ ~planning
        /\ sessions' = {}]_vars

\* The per-item listing broadcast at completion: completedRounds mapped, in
\* its own order, to the planned items (by their position in the tasklist).
Listing == [i \in 1..Len(completedRounds) |-> round[completedRounds[i]].task]

\* C12: the listing announced at completion names the completed rounds in
\* the original order of the planned items.
C12_ListingInPlanOrder ==
    [][emitted' # emitted =>
        \A i, j \in 1..Len(Listing) : i < j => Listing[i] <= Listing[j]]_vars

\* C13: every failure of a mention's handler becomes one error reply in the
\* room: a start() call that fails replies with its error, no suspended
\* handler (start, plan, estimate) ends or is lost without a reply, text that
\* matches no command and the word `add` are answered with an error, and a
\* reply is delivered once, before anything else happens.
C13_FailuresAreReplied ==
    [][/\ Len(loops') >= Len(loops)
       /\ \A l \in DOMAIN loops :
            (loops[l].pc # "failed" /\ loops'[l].pc = "failed")
                => out'.cmd = "start" /\ out'.err # "none"
       /\ fetching' < fetching => out'.cmd = "plan"
       /\ Len(estimating') < Len(estimating) => out'.cmd = "estimate"
       /\ (Idle /\ out'.cmd \in {"unknown", "add", "vote", "skip", "pass"} /\ out'.err # "none")
            => UNCHANGED <<people, session, round, suspended, emitted>>
       /\ (Idle /\ out'.cmd = "unknown") => out'.err = "DontUnderstand"
       /\ (Idle /\ out'.cmd = "add") => out'.err = "TypeError"
       /\ ~Idle => out' = Silent /\ UNCHANGED <<people, session, round, suspended, emitted>>]_vars

\* C13 witness: a start() call failed at the write-back and the room is being
\* told so.
C13_Witness ==
    /\ out = Outcome("start", "ApiError")
    /\ \E l \in DOMAIN loops : loops[l].pc = "failed"

\* C14: a command that is invalid for the lifecycle state is rejected with
\* its state error (or an argument error) and changes nothing: start with an
\* empty pending queue, and skip, pass, vote and estimate while not planning.
C14_InvalidCommandsChangeNothing ==
    [][/\ (Len(rounds) = 0 /\ StartCmd) => out' = Outcome("start", "NoTasks")
       /\ (~planning /\ SkipCmd) => out' = Outcome("skip", "NoTask")
       /\ (~planning /\ PassCmd) => out' = Outcome("pass", "NoTask")
       /\ \A p \in Persons, input \in VoteInputs :
            (~planning /\ VoteCmd(p, input)) =>
                /\ out'.cmd = "vote"
                /\ out'.err \in {"NoEstimate", "InvalidEstimate", "NoTaskToVote"}
       /\ \A p \in Persons, input \in EstimateInputs :
            (~planning /\ EstimateCmd(p, input)) =>
                /\ out'.cmd = "estimate"
                /\ out'.err \in {"NotModerator", "NothingToEstimate", "NoEstimate",
                                 "InvalidEstimate", "NoCurrentTask"}
       /\ (Idle /\ out' \in {Outcome("start", "NoTasks"), Outcome("skip", "NoTask"),
                             Outcome("pass", "NoTask"), Outcome("vote", "NoTaskToVote"),
                             Outcome("estimate", "NothingToEstimate"),
                             Outcome("estimate", "NoCurrentTask")})
            => UNCHANGED <<people, session, round, suspended, emitted>>]_vars

\* C14 witness: after completion a skip command is being rejected.
C14_Witness == completed /\ ~planning /\ out = Outcome("skip", "NoTask")

\* C15: only the moderator sets a round's final value: an estimate command
\* of anybody else is rejected and changes nothing (no request cancelled, no
\* value set, no round completed), the confirmation is asked of the moderator
\* only, and a final value changes only in an estimate command of the
\* moderator or in the moderator's answer to the confirmation.
C15_OnlyModeratorFinalizes ==
    [][/\ \A p \in Persons \ {Moderator}, input \in EstimateInputs :
            EstimateCmd(p, input) =>
                /\ out' = Outcome("estimate", "NotModerator")
                /\ UNCHANGED <<people, session, round, suspended, emitted>>
       /\ \A l \in DOMAIN loops' :
            loops'[l].pc = "confirm" => loops'[l].confirmer = Moderator
       /\ (\E r \in DOMAIN round : round'[r].value # round[r].value) =>
            \/ \E input \in EstimateInputs : EstimateCmd(Moderator, input)
            \/ \E l \in LoopIds, final \in FinalValues :
                    Confirmed(l, final) /\ loops[l].confirmer = Moderator]_vars

\* C15 witness: an estimate command of somebody else is being rejected while
\* a request of the current round is pending.
C15_Witness ==
    /\ out = Outcome("estimate", "NotModerator")
    /\ IsRound(currentRound)
    /\ Len(getEstimatingUsers(currentRound)) > 0

\* Person p has answered the request of round r with v.
RepliedWith(r, p, v) ==
    \E i \in 1..Len(round[r].prompts) : round[r].prompts[i] = Finalize(NewPrompt(p), v)

\* C16: with M, A and B in the room and a plan of two items, round 1 is
\* complete as soon as A has replied 3 and B has replied 5; the average that
\* execute() returns is 4 (the mean of 3 and 5); when the moderator confirms 4,
\* round 1's final value is 4, and the loop then makes round 2 current.
C16_ScenarioRoundOne ==
    [][\A l \in DOMAIN loops :
        /\ ( /\ Len(round) = 2 /\ loops[l].rnd = 1
             /\ loops[l].pc = "voting"
             /\ loops[l].asked = <<"M", "A", "B">>
             /\ RepliedWith(1, "A", 3) /\ RepliedWith(1, "B", 5) )
           => /\ AllResolved(round[1])
              /\ ExecuteResolved(l) => loops'[l].result.average = MeanBy(<<3, 5>>)
        /\ ( /\ Len(round) = 2 /\ loops[l].rnd = 1
             /\ loops[l].pc = "confirm"
             /\ Confirmed(l, 4) )
           => round'[1].value = 4
        /\ ( /\ Len(round) = 2 /\ loops[l].rnd = 1
             /\ round[1].value = 4
             /\ Advanced(l) )
           => currentRound' = 2]_vars

\* C17: when execute() returns with an empty estimates sequence (nobody was
\* in the room when the requests were issued), the average it returns is
\* not the numeric NaN.
C17_EmptyAverageIsNoData ==
    \A l \in DOMAIN loops :
        (loops[l].pc \in {"report", "confirm"} /\ loops[l].result.estimates = <<>>)
            => loops[l].result.average.sum # NaN

\* Loop l is inside execute() of the current round, with requests outstanding.
Outstanding(l) ==
    /\ loops[l].pc = "voting"
    /\ loops[l].rnd = currentRound
    /\ Len(getEstimatingUsers(currentRound)) > 0

\* C18: when skip, pass or the moderator's estimate command is accepted
\* while a round's requests are outstanding, the handler's first step cancels
\* them and the pending execute() rejects with the cancellation; the start
\* loop then continues with the next queued round (or closes the session),
\* and a loop that ends with an error did not come from a cancellation.
C18_PreemptCancelsFirst ==
    [][\A l \in DOMAIN loops :
        /\ ( /\ Outstanding(l)
             /\ \/ SkipCmd /\ out' = Outcome("skip", "none")
                \/ PassCmd /\ out' = Outcome("pass", "none")
                \/ \E input \in EstimateInputs :
                        EstimateCmd(Moderator, input) /\ Len(estimating') > Len(estimating) )
           => /\ loops'[l].pc = "cancelled"
              /\ \A i \in 1..Len(round'[currentRound].prompts) :
                    ~IsPending(round'[currentRound].prompts[i])
        /\ CancelNoticed(l) => loops'[l].pc \in {"announce", "closing"}
        /\ (loops[l].pc = "cancelled" /\ loops'[l].pc # "cancelled")
                => loops'[l].pc # "failed"]_vars

\* A plan() call ends in a failure: the fetch failed, or it returned no task.
PlanFailed == PlanFetchFailed \/ PlanFetched(0)

\* The replies of a failed plan().
PlanFailures == {Outcome("plan", "ApiError"), Outcome("plan", "NoTasks")}

\* C19: a plan() that fails (failed fetch, or an empty task list) replies
\* with the failure, queues no round and leaves planning and the rest of the
\* session as they were; a plan command given a tasklist URL while nothing
\* is queued or being planned is accepted, whatever failed before, and a
\* fetch that returns tasks queues them.
C19_PlanFailureKeepsSessionUsable ==
    [][/\ PlanFailed =>
            /\ out' \in PlanFailures
            /\ UNCHANGED <<session, round>>
       /\ out \in PlanFailures =>
            /\ out' = Silent
            /\ UNCHANGED <<session, round>>
       /\ \A arg \in PlanInputs :
            (IsTasklistUrl(arg) /\ rounds = <<>> /\ ~planning /\ PlanCmd(arg))
                => fetching' = fetching + 1 /\ out' = Silent
       /\ \A n \in 1..MaxTasks :
            PlanFetched(n) => /\ Len(rounds') = n
                              /\ \A i \in 1..n : round'[rounds'[i]].task = i
                              /\ out' = Outcome("plan", "none")]_vars

\* A plan has just failed, nothing is queued, and a retry would be accepted.
C19_Witness ==
    /\ out \in PlanFailures
    /\ rounds = <<>> /\ ~planning /\ round = <<>>
    /\ PlanError("https://x.teamwork.com/index.cfm#tasklists/12") = "none"

\* C20: the status report's completed count never exceeds its total, the
\* total being the rounds still counted for estimation (completed, current
\* and pending ones); producing the report changes no session or round state.
C20_StatusCounts ==
    [][(StatusCmd /\ out' = Outcome("status", "none")) =>
            /\ StatusCompleted <= StatusTotal
            /\ StatusTotal = Len(completedRounds) + Len(rounds)
                                + (IF planning /\ IsRound(currentRound) THEN 1 ELSE 0)
            /\ UNCHANGED <<people, session, round, suspended, emitted>>]_vars

(* ======================== the claims, C21 - C28 ======================== *)

\* C21: at every point where a command can be handled, currentRound is a
\* round if and only if planning is true (also after a start loop has ended
\* with an error and after the last round has left the queue).
C21_CurrentRoundIffPlanning == (currentRound # NoRound) <=> planning

\* cancelAllEstimates() has just run on round r.
CancelledNow(r) == round[r].reject = "function" /\ round'[r].reject = "null"

C23_VoteResolvesOneRequest ==
    [][/\ \A p \in Persons, input \in VoteInputs :
            (VoteCmd(p, input) /\ out' = Outcome("vote", "none")) =>
                LET before == round[currentRound].prompts
                    after == round'[currentRound].prompts
                IN  /\ Len(after) = Len(before)
                    /\ \E i \in 1..Len(before) :
                        /\ before[i].person = p
                        /\ IsPending(before[i])
                        /\ after[i] = [person |-> p, st |-> "resolved",
                                       value |-> ParseFloat(input)]
                        /\ \A j \in 1..Len(before) : j # i => after[j] = before[j]
                    /\ \A r \in DOMAIN round : r # currentRound => round'[r] = round[r]
                    /\ UNCHANGED <<people, session, suspended, emitted>>
       /\ \A l \in LoopIds :
            ExecuteResolved(l) =>
                \A i \in 1..Len(round[loops[l].rnd].prompts) :
                    round[loops[l].rnd].prompts[i].st = "resolved"]_vars

\* A vote has been accepted while another request of the round is pending.
C23_Witness ==
    /\ out = Outcome("vote", "none")
    /\ IsRound(currentRound)
    /\ \E i, j \in 1..Len(round[currentRound].prompts) :
        /\ round[currentRound].prompts[i].st = "resolved"
        /\ IsPending(round[currentRound].prompts[j])
    /\ \E l \in DOMAIN loops : loops[l].pc = "voting" /\ loops[l].rnd = currentRound

\* C24: a successful plan queues exactly one new, untouched Round per
\* fetched item, in source order; a round becomes current only by being
\* shifted from the head of the queue, one round per shift; and the queue
\* changes only by such a shift, by a plan, or by a pass, which appends the
\* current round to the tail.
C24_QueueIsFifo ==
    [][/\ \A n \in 1..MaxTasks :
            PlanFetched(n) =>
                /\ Len(rounds') = n
                /\ Len(round') = Len(round) + n
                /\ \A i \in 1..n :
                    /\ rounds'[i] = Len(round) + i
                    /\ round'[rounds'[i]] = NewRound(i)
       /\ (currentRound' # currentRound /\ currentRound' # NoRound) =>
            /\ rounds # <<>>
            /\ currentRound' = Head(rounds)
            /\ rounds' = Tail(rounds)
       /\ rounds' # rounds =>
            \/ rounds # <<>> /\ rounds' = Tail(rounds) /\ currentRound' = Head(rounds)
            \/ PassCmd /\ rounds' = Append(rounds, currentRound)
            \/ \E n \in 1..MaxTasks : PlanFetched(n)]_vars

\* With no round passed or skipped, round 2 is current after round 1.
C24_Witness ==
    /\ Len(round) = 2 /\ round[1].task = 1 /\ round[2].task = 2
    /\ completedRounds = <<1>> /\ skippedRounds = <<>>
    /\ currentRound = 2 /\ rounds = <<>>
    /\ \E l \in DOMAIN loops : loops[l].pc = "voting" /\ loops[l].rnd = 2

\* The people a round has a request for.
Requested(rd) == {rd.prompts[i].person : i \in 1..Len(rd.prompts)}

\* C25: a person joining or leaving the room changes no queue, not
\* currentRound or planning, no round and no request, and no suspended
\* handler; the people a round has requests for change only when
\* getAllEstimates() issues the requests or cancelAllEstimates() drops them,
\* and a pending request stays as it is until it resolves or is cancelled.
C25_MembershipLeavesRoundsAlone ==
    [][/\ people' # people => UNCHANGED <<session, round, suspended, emitted>>
       /\ \A r \in DOMAIN round :
            /\ Requested(round'[r]) # Requested(round[r]) =>
                \/ \E l \in LoopIds : Announced(l) /\ loops[l].rnd = r
                \/ CancelledNow(r) /\ round'[r].prompts = <<>>
            /\ \A i \in 1..Len(round[r].prompts) :
                IsPending(round[r].prompts[i]) =>
                    \/ /\ i <= Len(round'[r].prompts)
                       /\ round'[r].prompts[i].person = round[r].prompts[i].person
                       /\ round'[r].prompts[i].st \in {"pending", "resolved"}
                    \/ CancelledNow(r)
                    \/ \E l \in LoopIds : Announced(l) /\ loops[l].rnd = r]_vars

\* Mid-round, A has left with a pending request and B has joined without one.
C25_Witness ==
    /\ people = {"M", "B"}
    /\ \E l \in DOMAIN loops :
        /\ loops[l].pc = "voting"
        /\ loops[l].asked = <<"M", "A">>
        /\ Requested(round[loops[l].rnd]) = {"M", "A"}
        /\ \E i \in 1..Len(round[loops[l].rnd].prompts) :
            /\ round[loops[l].rnd].prompts[i].person = "A"
            /\ IsPending(round[loops[l].rnd].prompts[i])

\* C26: every value that has resolved a request and every final value of a
\* round is a positive number.
C26_ValuesArePositive ==
    \A r \in DOMAIN round :
        /\ round[r].value # NoValue => round[r].value > 0
        /\ \A i \in 1..Len(round[r].prompts) :
            round[r].prompts[i].st = "resolved" => round[r].prompts[i].value > 0

\* C27: when the write-back of estimate() fails, in an estimate command or
\* in the start loop, the round it was called for has no final value, is
\* not recorded as completed, and its requests are as they were.
C27_FailedWriteBackLeavesNoValue ==
    [][/\ \A k \in EstimatingIds :
            EstimateWriteFailed(k) =>
                /\ round'[estimating[k].rnd].value = NoValue
                /\ round'[estimating[k].rnd].prompts = round[estimating[k].rnd].prompts
                /\ estimating[k].rnd \notin Range(completedRounds')
       /\ \A l \in LoopIds :
            WriteFailed(l) =>
                /\ round'[loops[l].rnd].value = NoValue
                /\ loops[l].rnd \notin Range(completedRounds')]_vars

\* The suspended handlers resume with every call to the work-item API
\* succeeding: no fetch and no write-back fails.
ResumeReliable ==
    \/ \E n \in 0..MaxTasks : PlanFetched(n)
    \/ \E l \in LoopIds : Announced(l)
    \/ \E l \in LoopIds : ExecuteResolved(l)
    \/ \E l \in LoopIds : Reported(l)
    \/ \E l \in LoopIds, final \in FinalValues : Confirmed(l, final)
    \/ \E l \in LoopIds : Written(l)
    \/ \E l \in LoopIds : Pushed(l)
    \/ \E l \in LoopIds : Advanced(l)
    \/ \E l \in LoopIds : CancelNoticed(l)
    \/ \E l \in LoopIds : Closed(l)
    \/ \E k \in EstimatingIds : EstimateWritten(k)
    \/ \E k \in EstimatingIds : EstimateThen(k)

NextReliable ==
    \/ Command
    \/ ResumeReliable
    \/ Environment
    \/ Delivered

\* The program with a work-item API that never fails.
SpecReliable == Init /\ [][NextReliable]_vars

\* C28: with every collaborator call succeeding, a started session ends in
\* the completed state: planning false, no current round, the queue empty,
\* every round constructed in completedRounds or skippedRounds, the complete
\* signal emitted.  A round enters completedRounds or skippedRounds only
\* from currentRound, and currentRound only from the pending queue, so the
\* completed state is in reach only while every round is in one of the four.
C28_CompletedStateInReach ==
    loops # <<>> =>
        \A r \in DOMAIN round :
            r \in Range(completedRounds) \cup Range(skippedRounds)
                    \cup Range(rounds) \cup {currentRound}

====
